---- MODULE Spec2Model ----
(***************************************************************************)
(* hyper-json-stream: JsonStream<T>, a pull-based stream that reads a JSON *)
(* list from a hyper ResponseFuture, optionally inflating a gzip body with *)
(* zlib, and yields each element of the list.                              *)
(*                                                                         *)
(* A byte is a one-character string ("[", "1", ...) or a two-letter name   *)
(* for a byte that is not printable ("NUL", "C3", "A9", "FF").             *)
(***************************************************************************)
EXTENDS Naturals, Sequences, FiniteSets, TLC

VARIABLES
    resp,      \* the response the transport will produce (fixed at construction)
    net,       \* the transport: the response future and the body's frames
    js,        \* JsonStream.state : State<T>
    zs,        \* the z_stream box and the engine state behind the raw pointer
    out,       \* the non-pending results poll_next has returned, in order
    last,      \* the result of the latest poll_next
    obs,       \* what a caller or the transport can observe of the run
    heap       \* the host allocator behind zalloc and zfree

vars == <<resp, net, js, zs, out, last, obs, heap>>

(***************************************************************************)
(* Bounds of the model.                                                    *)
(***************************************************************************)
\* poll_next is called at most this many times with a non-pending result
MaxOut == 5
\* the memory behind a chunk's bytes is any pattern of this period
MaxOverRead == 2
\* the length of the output window: let mut output_buffer = [0; 1024] in
\* the source, scaled down so that bodies of a few bytes fill it
OutputBufferLen == 2
\* the width of uInt, 32 bits in the source, scaled down
UIntBits == 4
\* the host allocator has room for this many blocks
MaxBlocks == 2
\* the extractor on its own holds at most this many bytes
MaxBuf == 3
\* and is pushed at most this many bytes between two calls of next()
MaxPush == 1

(***************************************************************************)
(* Program constants.                                                      *)
(***************************************************************************)
\* min(get_content_length(&parts), 0x1000)
ErrorBodyCap == 4096
StatusOK == 200
StatusNoContent == 204

Min(a, b) == IF a <= b THEN a ELSE b

Fill(n, b) == [i \in 1..n |-> b]

Contains(s, b) == \E i \in 1..Len(s) : s[i] = b

(***************************************************************************)
(* Element Extractor (PartialJson<T>, stream/partial_json.rs), after the    *)
(* specification's section 4.1.                                            *)
(*   buf    the Byte Buffer: bytes pushed and not yet consumed             *)
(*   pos    Scan Cursor: how many bytes of buf have been scanned           *)
(*   start  index in buf of the first byte of the element being scanned,   *)
(*          0 when no element has begun                                    *)
(*   depth  current bracket/brace nesting depth                            *)
(*   inStr, esc   in-quoted-string flag, pending-escape flag               *)
(*   level  target nesting level at which elements are extracted           *)
(***************************************************************************)
PartialJsonNew(cap, lvl) ==
    [buf |-> <<>>, pos |-> 0, start |-> 0, depth |-> 0,
     inStr |-> FALSE, esc |-> FALSE, level |-> lvl, cap |-> cap]

\* push(bytes): append to the Byte Buffer, no parsing side effect
JsonPush(j, bytes) == [j EXCEPT !.buf = @ \o bytes]

IsOpen(b) == b \in {"[", "{"}
IsClose(b) == b \in {"]", "}"}

\* the index of the quote that closes the string opened at s[1], 0 if none
RECURSIVE StringEnd(_, _, _)
StringEnd(s, i, esc) ==
    IF i > Len(s) THEN 0
    ELSE IF esc THEN StringEnd(s, i + 1, FALSE)
    ELSE IF s[i] = "\\" THEN StringEnd(s, i + 1, TRUE)
    ELSE IF s[i] = "\"" THEN i
    ELSE StringEnd(s, i + 1, FALSE)

\* the external value decoder's verdict on a complete slice
ValidValue(s) ==
    /\ Len(s) > 0
    /\ \/ \A i \in 1..Len(s) : s[i] = "1"
       \/ s[1] = "\"" /\ StringEnd(s, 2, FALSE) = Len(s)
       \/ /\ Len(s) >= 2
          /\ <<s[1], s[Len(s)]>> \in {<<"[", "]">>, <<"{", "}">>}
          /\ ~Contains(s, "NUL")

\* decode a complete slice into a T
Decode(s) == IF ValidValue(s) THEN [ok |-> TRUE, val |-> s]
             ELSE [ok |-> FALSE, val |-> s]

\* JsonConsume leaving the trailing separator in the buffer
JsonConsumeKeepsSeparator(j, i, newDepth) ==
    [json |-> [j EXCEPT !.buf = SubSeq(j.buf, i, Len(j.buf)), !.pos = 0,
                        !.start = 0, !.depth = newDepth,
                        !.inStr = FALSE, !.esc = FALSE],
     found |-> TRUE,
     slice |-> SubSeq(j.buf, j.start, i - 1)]

\* the element ending just before index i is complete: drop the consumed
\* prefix (slice plus trailing separator) and reset the cursor
JsonConsume(j, i, newDepth) ==
    [json |-> [j EXCEPT !.buf = SubSeq(j.buf, i + 1, Len(j.buf)), !.pos = 0,
                        !.start = 0, !.depth = newDepth,
                        !.inStr = FALSE, !.esc = FALSE],
     found |-> TRUE,
     slice |-> SubSeq(j.buf, j.start, i - 1)]

\* scan from the last unconsumed position to the next value boundary at the
\* target level
RECURSIVE JsonScan(_)
JsonScan(j) ==
    IF j.pos >= Len(j.buf) THEN [json |-> j, found |-> FALSE, slice |-> <<>>]
    ELSE
      LET i == j.pos + 1
          b == j.buf[i]
          adv == [j EXCEPT !.pos = i]
          begun == IF j.depth >= j.level /\ j.start = 0 THEN i ELSE j.start
      IN
      IF j.inStr THEN
          IF j.esc THEN JsonScan([adv EXCEPT !.esc = FALSE])
          ELSE IF b = "\\" THEN JsonScan([adv EXCEPT !.esc = TRUE])
          ELSE IF b = "\"" THEN JsonScan([adv EXCEPT !.inStr = FALSE])
          ELSE JsonScan(adv)
      ELSE IF b = "\"" THEN
          JsonScan([adv EXCEPT !.inStr = TRUE, !.start = begun])
      ELSE IF IsOpen(b) THEN
          JsonScan([adv EXCEPT !.depth = @ + 1, !.start = begun])
      ELSE IF IsClose(b) THEN
          IF j.depth = j.level /\ j.start # 0 THEN JsonConsume(j, i, j.depth - 1)
          ELSE JsonScan([adv EXCEPT !.depth = IF @ > 0 THEN @ - 1 ELSE 0])
      ELSE IF b = "," THEN
          IF j.depth = j.level /\ j.start # 0 THEN JsonConsume(j, i, j.depth)
          ELSE JsonScan(adv)
      ELSE JsonScan([adv EXCEPT !.start = begun])

\* next() dropping the bytes it has scanned when no element is complete
JsonNextTrims(j) ==
    LET r == JsonScan(j) IN
    IF ~r.found
    THEN [json |-> [r.json EXCEPT !.buf = SubSeq(@, r.json.pos + 1, Len(@)),
                                  !.pos = 0, !.start = 0],
          res |-> "None", val |-> <<>>]
    ELSE IF Decode(r.slice).ok
         THEN [json |-> r.json, res |-> "Some", val |-> Decode(r.slice).val]
         ELSE [json |-> r.json, res |-> "Err", val |-> r.slice]

\* next() -> value decoded | no complete element yet | parse failure
JsonNext(j) ==
    LET r == JsonScan(j) IN
    IF ~r.found THEN [json |-> r.json, res |-> "None", val |-> <<>>]
    ELSE IF Decode(r.slice).ok
         THEN [json |-> r.json, res |-> "Some", val |-> Decode(r.slice).val]
         ELSE [json |-> r.json, res |-> "Err", val |-> r.slice]

(***************************************************************************)
(* The decompression engine (zlib's inflate behind *mut z_stream).         *)
(* A compressed stream is "H" (header), then tokens, then "E" (trailer);   *)
(* a token is a literal byte, or "R": the last output byte twice.          *)
(*   phase  "head" | "data" | "done" | "bad"                               *)
(*   hold   bytes decoded and not yet written to the output window         *)
(*   lastb  the last literal decoded                                       *)
(***************************************************************************)
EngineNew == [phase |-> "head", hold |-> <<>>, lastb |-> "NUL"]

\* the compressor the server ran: a byte repeated three times is sent as
\* the byte and "R"
RECURSIVE Deflate(_)
Deflate(s) ==
    IF Len(s) >= 3 /\ s[1] = s[2] /\ s[2] = s[3]
    THEN <<s[1], "R">> \o Deflate(SubSeq(s, 4, Len(s)))
    ELSE IF s = <<>> THEN <<>>
    ELSE <<Head(s)>> \o Deflate(Tail(s))

Gzip(s) == <<"H">> \o Deflate(s) \o <<"E">>

InflateStatus(e, consumed, produced) ==
    IF e.phase = "bad" THEN "Z_DATA_ERROR"
    ELSE IF e.phase = "done" /\ e.hold = <<>> THEN "Z_STREAM_END"
    ELSE IF consumed = 0 /\ produced = <<>> THEN "Z_BUF_ERROR"
    ELSE "Z_OK"

\* one byte of compressed input
InflateByte(e, t) ==
    IF e.phase = "head" THEN
        IF t = "H" THEN [e EXCEPT !.phase = "data"] ELSE [e EXCEPT !.phase = "bad"]
    ELSE IF t = "E" THEN [e EXCEPT !.phase = "done"]
    ELSE IF t = "R" THEN
        IF e.lastb = "NUL" THEN [e EXCEPT !.phase = "bad"]
        ELSE [e EXCEPT !.hold = <<e.lastb, e.lastb>>]
    ELSE IF t \in {"H", "NUL", "FF"} THEN [e EXCEPT !.phase = "bad"]
    ELSE [e EXCEPT !.hold = <<t>>, !.lastb = t]

\* inflate(strm, Z_NO_FLUSH) with next_in/avail_in = input and avail_out =
\* room - Len(produced): runs until the input is empty, the output window
\* is full, the stream ends or the data is bad
RECURSIVE Inflate(_, _, _, _, _)
Inflate(e, input, consumed, produced, room) ==
    IF e.hold # <<>> THEN
        IF Len(produced) < room
        THEN Inflate([e EXCEPT !.hold = Tail(@)], input, consumed,
                     Append(produced, Head(e.hold)), room)
        ELSE [eng |-> e, consumed |-> consumed, produced |-> produced,
              ret |-> InflateStatus(e, consumed, produced)]
    ELSE IF e.phase \in {"done", "bad"} \/ consumed >= Len(input) THEN
        [eng |-> e, consumed |-> consumed, produced |-> produced,
         ret |-> InflateStatus(e, consumed, produced)]
    ELSE Inflate(InflateByte(e, input[consumed + 1]), input, consumed + 1,
                 produced, room)

(***************************************************************************)
(* Results of a poll: Poll<Option<Result<T, JsonStreamError>>>.            *)
(* "Continue" is State::poll returning None (poll_next loops), "Panic" an  *)
(* unwinding poll.                                                         *)
(***************************************************************************)
Ret(tag, kind, val, status) == [tag |-> tag, kind |-> kind, val |-> val, status |-> status]
Pending == Ret("Pending", "", <<>>, 0)
ReadyNone == Ret("None", "", <<>>, 0)
ReadyOk(v) == Ret("Ok", "", v, 0)
ReadyErr(kind) == Ret("Err", kind, <<>>, 0)
ApiError(status, text) == Ret("Err", "ApiError", text, status)
Continue == Ret("Continue", "", <<>>, 0)
Panic == Ret("Panic", "", <<>>, 0)

(***************************************************************************)
(* enum State<T>, as one record shape:                                     *)
(*   Connecting(ResponseFuture)                                            *)
(*   Collecting { body, json, encoding, stream, total_in }                 *)
(*   CollectingError(Parts, Incoming, Vec<u8>)                             *)
(*   EncodingError()                                                       *)
(*   Done()                                                                *)
(* stream is "null" or "zs", the address of the boxed z_stream.            *)
(***************************************************************************)
StateOf(tag) ==
    [tag |-> tag, json |-> PartialJsonNew(0, 0), encoding |-> "None",
     stream |-> "null", total_in |-> 0, status |-> 0, bytes |-> <<>>, cap |-> 0]
Connecting == StateOf("Connecting")
Collecting(json, encoding, stream) ==
    [StateOf("Collecting") EXCEPT !.json = json, !.encoding = encoding, !.stream = stream]
CollectingError(status, cap) ==
    [StateOf("CollectingError") EXCEPT !.status = status, !.cap = cap]
EncodingError == StateOf("EncodingError")
Done == StateOf("Done")

\* JsonStream::new(resp, level, capacity)
JsonStreamNew == Connecting

\* FusedStream::is_terminated
is_terminated(st) == st.tag = "Done"

\* ContentEncoding::from_str taking every value for gzip
ContentEncodingAlwaysGzip(str) == "Gzip"

\* ContentEncoding::from_str
ContentEncodingFromStr(str) == IF str = "gzip" THEN "Gzip" ELSE "None"

\* get_content_length(&parts): the header parsed, 0 when absent or unreadable
get_content_length(r) == IF r.contentLength = <<>> THEN 0 ELSE r.contentLength[1]

\* String::from_utf8 on bytes that are ASCII ("a".."z", digits, punctuation),
\* the two-byte sequence C3 A9, or the byte FF that no encoding contains
RECURSIVE Utf8Valid(_)
Utf8Valid(b) ==
    IF b = <<>> THEN TRUE
    ELSE IF Head(b) = "C3" THEN Len(b) >= 2 /\ b[2] = "A9" /\ Utf8Valid(SubSeq(b, 3, Len(b)))
    ELSE IF Head(b) \in {"A9", "FF"} THEN FALSE
    ELSE Utf8Valid(Tail(b))

(***************************************************************************)
(* The transport.                                                          *)
(*   fut     "pending" | "ready": the ResponseFuture                       *)
(*   rest    body bytes the transport has not yet framed                   *)
(*   q       frames ready to be read: Data(bytes), Trailers, End, Err      *)
(*   closed  an End or Err frame has been queued                           *)
(*   ended   poll_frame has returned None or an error                      *)
(*   failed  reading the body has failed (an Err frame was queued)         *)
(* obs.dataFrames counts the data frames poll_frame has handed out.        *)
(***************************************************************************)
Frame(kind, bytes) == [kind |-> kind, bytes |-> bytes]

\* Pin::new(body).poll_frame(cx)
PollFrame(w) ==
    IF w.net.q # <<>> THEN
        [w |-> [w EXCEPT !.net.q = Tail(@),
                         !.net.ended = @ \/ Head(w.net.q).kind \in {"End", "Err"},
                         !.obs.bodyPolled = TRUE, !.obs.touched = TRUE,
                         !.obs.dataFrames = IF Head(w.net.q).kind = "Data"
                                            THEN @ + 1 ELSE @],
         frame |-> Head(w.net.q)]
    ELSE IF w.net.ended THEN
        [w |-> [w EXCEPT !.obs.polledAfterEnd = TRUE, !.obs.bodyPolled = TRUE,
                         !.obs.touched = TRUE],
         frame |-> Frame("End", <<>>)]
    ELSE [w |-> [w EXCEPT !.obs.bodyPolled = TRUE, !.obs.touched = TRUE],
          frame |-> Frame("Pending", <<>>)]

Step(w, ret) == [w |-> w, ret |-> ret]

(***************************************************************************)
(* State::poll, one match arm per operator. w is the world a poll acts on: *)
(* [js, net, zs, obs]; g is what lies in memory behind a chunk's bytes.    *)
(* A header is <<>> (absent) or <<"text", value>> or <<"opaque">> (a value *)
(* HeaderValue::to_str rejects).                                           *)
(***************************************************************************)

\* the Ok arm of the response future: classify the response
Classify(w) ==
    IF resp.contentEncoding # <<>> /\ resp.contentEncoding[1] # "text" THEN
        \* content_encoding.to_str().unwrap()
        Step([w EXCEPT !.obs.panicked = TRUE], Panic)
    ELSE
      LET encoding == IF resp.contentEncoding # <<>>
                      THEN ContentEncodingFromStr(resp.contentEncoding[2])
                      ELSE "None"
          json == PartialJsonNew(resp.capacity, resp.level)
      IN
      IF resp.status = StatusOK THEN
          IF encoding = "Gzip" THEN
              \* Box::into_raw(Box::new(z_stream {..})), inflateInit2_(stream, 47, ..)
              IF resp.initOk THEN
                  Step([w EXCEPT !.js = Collecting(json, encoding, "zs"),
                                 !.zs = [@ EXCEPT !.boxed = TRUE, !.inited = TRUE,
                                                  !.eng = EngineNew, !.created = @ + 1]],
                       Continue)
              ELSE
                  Step([w EXCEPT !.js = EncodingError,
                                 !.zs = [@ EXCEPT !.boxed = TRUE, !.created = @ + 1]],
                       Continue)
          ELSE Step([w EXCEPT !.js = Collecting(json, encoding, "null")], Continue)
      ELSE IF resp.status = StatusNoContent THEN Step([w EXCEPT !.js = Done], Continue)
      ELSE Step([w EXCEPT !.js = CollectingError(
                                   resp.status,
                                   Min(get_content_length(resp), ErrorBodyCap))],
                Continue)

\* PollConnecting with the failure arm leaving the state as it is
PollConnectingStays(w) ==
    LET polled == [w EXCEPT !.obs.touched = TRUE] IN
    IF w.net.fut = "pending" THEN Step(polled, Pending)
    ELSE IF resp.outcome = "Ok" THEN Classify(polled)
    ELSE Step(polled, ReadyErr("HyperError"))

\* State::Connecting(fut)
PollConnecting(w) ==
    LET polled == [w EXCEPT !.obs.touched = TRUE] IN
    IF w.net.fut = "pending" THEN Step(polled, Pending)
    ELSE IF resp.outcome = "Ok" THEN Classify(polled)
    ELSE Step([polled EXCEPT !.js = Done], ReadyErr("HyperError"))

\* the bytes the engine may read when told avail_in = b.len() at offset
\* total_in: the rest of the chunk, then n bytes that are not the chunk's
OverRead(g, n) == [i \in 1..n |-> g[((i - 1) % MaxOverRead) + 1]]

\* one pass of the loop: what the engine was handed (next_in as an offset
\* into bytes_vec, avail_in), what inflate returned and produced, and what
\* was pushed to the extractor (<<>> when nothing was)
FeedStep(next_in, avail_in, ret, produced, pushed) ==
    [next_in |-> next_in, avail_in |-> avail_in, ret |-> ret,
     produced |-> produced, pushed |-> pushed]

\* the decompression loop over one chunk, from the pass that starts with
\* the counter at total_in; steps are the passes made so far
RECURSIVE FeedFrom(_, _, _, _, _, _)
FeedFrom(json, e, total_in, b, g, steps) ==
    IF total_in > Len(b) THEN
        \* &mut bytes_vec[*total_in as usize..] is out of range
        [json |-> json, eng |-> e, total_in |-> total_in, res |-> "panic",
         steps |-> steps]
    ELSE
      LET data == SubSeq(b, total_in + 1, Len(b))
          avail_in == Len(b)
          input == data \o OverRead(g, avail_in - Len(data))
          r == Inflate(e, input, 0, <<>>, OutputBufferLen)
          output_buffer == r.produced \o Fill(OutputBufferLen - Len(r.produced), "NUL")
      IN
      IF r.ret \in {"Z_BUF_ERROR", "Z_OK"} THEN
          IF total_in + r.consumed >= Len(b)
          THEN [json |-> json, eng |-> r.eng, total_in |-> 0, res |-> "ok",
                steps |-> Append(steps, FeedStep(total_in, avail_in, r.ret,
                                                 r.produced, <<>>))]
          ELSE FeedFrom(JsonPush(json, output_buffer), r.eng,
                        total_in + r.consumed, b, g,
                        Append(steps, FeedStep(total_in, avail_in, r.ret,
                                               r.produced, <<output_buffer>>)))
      ELSE [json |-> json, eng |-> r.eng, total_in |-> total_in, res |-> "error",
            steps |-> Append(steps, FeedStep(total_in, avail_in, r.ret,
                                             r.produced, <<>>))]

\* the decompression loop over one chunk
FeedLoop(json, e, total_in, b, g) == FeedFrom(json, e, total_in, b, g, <<>>)

\* CollectingData with the raw chunk replacing the buffered bytes
CollectingDataOverwrite(w, b, g) ==
    IF w.js.encoding = "None" THEN
        Step([w EXCEPT !.js.json = [@ EXCEPT !.buf = b, !.pos = 0]], Continue)
    ELSE
      LET f == FeedLoop(w.js.json, w.zs.eng, w.js.total_in, b, g)
          fed == [w EXCEPT !.js.json = f.json, !.js.total_in = f.total_in,
                           !.zs.eng = f.eng]
      IN
      IF f.res = "ok" THEN Step(fed, Continue)
      ELSE IF f.res = "error" THEN Step(fed, ReadyErr("EncodingError"))
      ELSE Step([fed EXCEPT !.obs.panicked = TRUE], Panic)

\* Poll::Ready(Some(Ok(chunk))) with chunk.into_data() = Ok(b), in Collecting
CollectingData(w, b, g) ==
    IF w.js.encoding = "None" THEN
        Step([w EXCEPT !.js.json = JsonPush(@, b)], Continue)
    ELSE
      LET f == FeedLoop(w.js.json, w.zs.eng, w.js.total_in, b, g)
          fed == [w EXCEPT !.js.json = f.json, !.js.total_in = f.total_in,
                           !.zs.eng = f.eng]
      IN
      IF f.res = "ok" THEN Step(fed, Continue)
      ELSE IF f.res = "error" THEN Step(fed, ReadyErr("EncodingError"))
      ELSE Step([fed EXCEPT !.obs.panicked = TRUE], Panic)

\* PollCollecting taking a ready data frame before it asks the extractor
PollCollectingReadsFirst(w, g) ==
    LET n == JsonNext(w.js.json)
        scanned == [w EXCEPT !.js.json = n.json]
    IN
    IF w.net.q # <<>> /\ Head(w.net.q).kind = "Data"
    THEN CollectingData(PollFrame(w).w, PollFrame(w).frame.bytes, g)
    ELSE IF n.res = "Some" THEN Step(scanned, ReadyOk(n.val))
    ELSE IF n.res = "Err" THEN Step([scanned EXCEPT !.js = Done], ReadyErr("JsonError"))
    ELSE
      LET p == PollFrame(scanned) IN
      IF p.frame.kind = "Pending" THEN Step(p.w, Pending)
      ELSE IF p.frame.kind = "Data" THEN CollectingData(p.w, p.frame.bytes, g)
      ELSE IF p.frame.kind = "Trailers" THEN Step(p.w, ReadyErr("IOError"))
      ELSE IF p.frame.kind = "End" THEN Step(p.w, ReadyNone)
      ELSE Step([p.w EXCEPT !.js = Done], ReadyErr("HyperError"))

\* State::Collecting { body, json, encoding, stream, total_in }
PollCollecting(w, g) ==
    LET n == JsonNext(w.js.json)
        scanned == [w EXCEPT !.js.json = n.json]
    IN
    IF n.res = "Some" THEN Step(scanned, ReadyOk(n.val))
    ELSE IF n.res = "Err" THEN Step([scanned EXCEPT !.js = Done], ReadyErr("JsonError"))
    ELSE
      LET p == PollFrame(scanned) IN
      IF p.frame.kind = "Pending" THEN Step(p.w, Pending)
      ELSE IF p.frame.kind = "Data" THEN CollectingData(p.w, p.frame.bytes, g)
      ELSE IF p.frame.kind = "Trailers" THEN Step(p.w, ReadyErr("IOError"))
      ELSE IF p.frame.kind = "End" THEN Step(p.w, ReadyNone)
      ELSE Step([p.w EXCEPT !.js = Done], ReadyErr("HyperError"))

\* PollCollectingError keeping only the latest chunk of the error body
PollCollectingErrorLastChunk(w) ==
    LET p == PollFrame(w) IN
    IF p.frame.kind = "Pending" THEN Step(p.w, Pending)
    ELSE IF p.frame.kind = "Data" THEN
        Step([p.w EXCEPT !.js.bytes = p.frame.bytes], Continue)
    ELSE IF p.frame.kind = "Trailers" THEN Step(p.w, ReadyErr("IOError"))
    ELSE IF p.frame.kind = "End" THEN
        IF Utf8Valid(w.js.bytes)
        THEN Step([p.w EXCEPT !.js = Done], ApiError(w.js.status, w.js.bytes))
        ELSE Step([p.w EXCEPT !.js = Done], ReadyErr("MalformedJson"))
    ELSE Step([p.w EXCEPT !.js = Done], ReadyErr("HyperError"))

\* PollCollectingError forgetting the error body when the next chunk is pending
PollCollectingErrorForgets(w) ==
    LET p == PollFrame(w) IN
    IF p.frame.kind = "Pending" THEN Step([p.w EXCEPT !.js.bytes = <<>>], Pending)
    ELSE IF p.frame.kind = "Data" THEN
        Step([p.w EXCEPT !.js.bytes = @ \o p.frame.bytes], Continue)
    ELSE IF p.frame.kind = "Trailers" THEN Step(p.w, ReadyErr("IOError"))
    ELSE IF p.frame.kind = "End" THEN
        IF Utf8Valid(w.js.bytes)
        THEN Step([p.w EXCEPT !.js = Done], ApiError(w.js.status, w.js.bytes))
        ELSE Step([p.w EXCEPT !.js = Done], ReadyErr("MalformedJson"))
    ELSE Step([p.w EXCEPT !.js = Done], ReadyErr("HyperError"))

\* State::CollectingError(parts, body, bytes)
PollCollectingError(w) ==
    LET p == PollFrame(w) IN
    IF p.frame.kind = "Pending" THEN Step(p.w, Pending)
    ELSE IF p.frame.kind = "Data" THEN
        Step([p.w EXCEPT !.js.bytes = @ \o p.frame.bytes], Continue)
    ELSE IF p.frame.kind = "Trailers" THEN Step(p.w, ReadyErr("IOError"))
    ELSE IF p.frame.kind = "End" THEN
        IF Utf8Valid(w.js.bytes)
        THEN Step([p.w EXCEPT !.js = Done], ApiError(w.js.status, w.js.bytes))
        ELSE Step([p.w EXCEPT !.js = Done], ReadyErr("MalformedJson"))
    ELSE Step([p.w EXCEPT !.js = Done], ReadyErr("HyperError"))

\* State::poll with the Done arm asking the body for another frame
StatePollRepoll(w, g) ==
    IF w.js.tag = "Connecting" THEN PollConnecting(w)
    ELSE IF w.js.tag = "Collecting" THEN PollCollecting(w, g)
    ELSE IF w.js.tag = "CollectingError" THEN PollCollectingError(w)
    ELSE IF w.js.tag = "EncodingError" THEN Step(w, ReadyErr("EncodingError"))
    ELSE Step(PollFrame(w).w, ReadyNone)

\* State::poll
StatePoll(w, g) ==
    IF w.js.tag = "Connecting" THEN PollConnecting(w)
    ELSE IF w.js.tag = "Collecting" THEN PollCollecting(w, g)
    ELSE IF w.js.tag = "CollectingError" THEN PollCollectingError(w)
    ELSE IF w.js.tag = "EncodingError" THEN Step(w, ReadyErr("EncodingError"))
    ELSE Step(w, ReadyNone)

\* JsonStream::poll_next: loop { if let Some(poll) = state.poll(..) { return poll } }
RECURSIVE poll_loop(_, _)
poll_loop(w, g) ==
    LET r == StatePoll(w, g) IN
    IF r.ret = Continue THEN poll_loop(r.w, g) ELSE r

poll_next(w, g) == poll_loop([w EXCEPT !.obs.touched = FALSE], g)

(***************************************************************************)
(* The allocator bridge handed to zlib: zalloc and zfree (ffi/c.rs).       *)
(* uInt is 32 bits wide in the source and usize is 32 or 64 bits wide, by  *)
(* target; the model keeps the ratio and scales the widths to UIntBits and *)
(* 2 * UIntBits.  A build either wraps an overflowing `+` (release) or     *)
(* panics on it (overflow checks), and a panic in an extern "C" function   *)
(* aborts the process.                                                     *)
(***************************************************************************)
RECURSIVE Pow2(_)
Pow2(n) == IF n = 0 THEN 1 ELSE 2 * Pow2(n - 1)

UIntMax == Pow2(UIntBits) - 1
UsizeBits == {UIntBits, 2 * UIntBits}
UsizeMax(bits) == Pow2(bits) - 1
IsizeMax(bits) == Pow2(bits - 1) - 1

\* const ALIGN: usize = mem::align_of::<usize>(), which is also the width
\* of the header word, mem::size_of::<usize>()
ALIGN(bits) == IF bits = UIntBits THEN 4 ELSE 8
HeaderWidth(bits) == ALIGN(bits)

\* (size + align - 1) & !(align - 1), in usize arithmetic that wraps
align_up(size, align, bits) ==
    LET s == (size + align - 1) % Pow2(bits) IN s - (s % align)

\* Layout::from_size_align(size, align): the size rounded up to the
\* alignment must not exceed isize::MAX
LayoutOk(size, align, bits) == size <= IsizeMax(bits) - (align - 1)

NullPtr == [block |-> 0, off |-> 0]
Ptr(id, off) == [block |-> id, off |-> off]

\* the bytes a zalloc call asks for: <<items * item_size>> in unbounded
\* arithmetic, or <<>> when the product does not fit uInt
Product(items, item_size) ==
    IF items * item_size > UIntMax THEN <<>> ELSE <<items * item_size>>

NoCall == [op |-> "none", product |-> <<>>, requested |-> <<>>,
           ret |-> NullPtr, layout |-> <<>>, block |-> <<>>]

\* the host allocator and the memory of the header words
HeapNew(bits, checks) ==
    [usizeBits |-> bits, checks |-> checks,
     blocks |-> {},       \* live blocks of alloc::alloc: [id, size, align]
     mem |-> {},          \* the header word of each block: [id, word]
     held |-> {},         \* the addresses zlib holds
     ub |-> FALSE,        \* dealloc of a block or layout that alloc did not give
     aborted |-> FALSE,
     call |-> NoCall]

IsLive(h, id) == \E b \in h.blocks : b.id = id
BlockOf(h, id) == CHOOSE b \in h.blocks : b.id = id
Word(h, id) == (CHOOSE m \in h.mem : m.id = id).word
FreshBlock(h) == CHOOSE id \in 1..MaxBlocks : ~IsLive(h, id)

\* alloc::alloc(layout)
HostAlloc(h, size, align, hostOk) ==
    IF hostOk /\ \E id \in 1..MaxBlocks : ~IsLive(h, id)
    THEN [heap |-> [h EXCEPT !.blocks = @ \cup {[id |-> FreshBlock(h),
                                                  size |-> size, align |-> align]}],
          ptr |-> Ptr(FreshBlock(h), 0)]
    ELSE [heap |-> h, ptr |-> NullPtr]

\* alloc::dealloc(ptr, layout)
HostDealloc(h, ptr, size, align) ==
    IF /\ ptr.off = 0
       /\ IsLive(h, ptr.block)
       /\ BlockOf(h, ptr.block).size = size
       /\ BlockOf(h, ptr.block).align = align
    THEN [h EXCEPT !.blocks = { b \in @ : b.id # ptr.block },
                   !.mem = { m \in @ : m.id # ptr.block }]
    ELSE [h EXCEPT !.ub = TRUE]

Called(h, op, product, requested, ret, layout, block) ==
    [h EXCEPT !.call = [op |-> op, product |-> product,
                        requested |-> requested, ret |-> ret,
                        layout |-> layout, block |-> block]]

\* zalloc with the header word holding the caller's size
zallocStoresPayloadSize(h, items, item_size, hostOk) ==
    LET bits == h.usizeBits
        size == align_up(items * item_size, ALIGN(bits), bits) + HeaderWidth(bits)
        a == HostAlloc(h, size, ALIGN(bits), hostOk)
    IN  IF items * item_size > UIntMax \/ ~LayoutOk(size, ALIGN(bits), bits)
           \/ a.ptr = NullPtr
        THEN Called(h, "zalloc", Product(items, item_size), <<>>, NullPtr, <<>>, <<>>)
        ELSE Called([a.heap EXCEPT
                        !.mem = @ \cup {[id |-> a.ptr.block, word |-> items * item_size]},
                        !.held = @ \cup {Ptr(a.ptr.block, HeaderWidth(bits))}],
                    "zalloc", Product(items, item_size), <<size>>,
                    Ptr(a.ptr.block, HeaderWidth(bits)), <<>>, <<>>)

\* pub extern "C" fn zalloc(_ptr, items: uInt, item_size: uInt) -> *mut c_void
zalloc(h, items, item_size, hostOk) ==
    LET bits == h.usizeBits
        align == ALIGN(bits)
        null(req) == Called(h, "zalloc", Product(items, item_size), req, NullPtr, <<>>, <<>>)
    IN  \* items.checked_mul(item_size), usize::try_from
        IF items * item_size > UIntMax THEN null(<<>>)
        \* align_up(size, ALIGN)
        ELSE IF h.checks /\ items * item_size + align - 1 > UsizeMax(bits)
        THEN [null(<<>>) EXCEPT !.aborted = TRUE]
        ELSE LET rounded == align_up(items * item_size, align, bits)
                 size == rounded + HeaderWidth(bits)
             IN  \* i.checked_add(size_of::<usize>())
                 IF size > UsizeMax(bits) THEN null(<<>>)
                 ELSE IF ~LayoutOk(size, align, bits) THEN null(<<>>)
                 ELSE LET a == HostAlloc(h, size, align, hostOk) IN
                      IF a.ptr = NullPtr THEN null(<<size>>)
                      ELSE \* *ptr = size; ptr.add(1)
                           Called([a.heap EXCEPT
                                     !.mem = @ \cup {[id |-> a.ptr.block, word |-> size]},
                                     !.held = @ \cup {Ptr(a.ptr.block, HeaderWidth(bits))}],
                                  "zalloc", Product(items, item_size), <<size>>,
                                  Ptr(a.ptr.block, HeaderWidth(bits)), <<>>, <<>>)

\* pub extern "C" fn zfree(_ptr, address: *mut c_void)
zfree(h, address) ==
    LET bits == h.usizeBits
        ptr == Ptr(address.block, address.off - HeaderWidth(bits))
    IN  IF ~IsLive(h, ptr.block) \/ ptr.off # 0
        THEN [h EXCEPT !.ub = TRUE]
        ELSE LET size == Word(h, ptr.block)
                 was == BlockOf(h, ptr.block)
                 h1 == HostDealloc(h, ptr, size, ALIGN(bits))
             IN  Called([h1 EXCEPT !.held = @ \ {address}],
                        "zfree", <<>>, <<>>, address,
                        <<size, ALIGN(bits)>>, <<was.size, was.align>>)

(***************************************************************************)
(* The responses and bodies the runs are checked over.                     *)
(***************************************************************************)
Statuses == {200, 204, 500}
NoHeader == <<>>
ContentEncodings == {NoHeader, <<"text", "gzip">>, <<"text", "br">>, <<"opaque">>}
ContentLengths == {NoHeader, <<3>>, <<5000>>}
JsonPayloads ==
    { <<"[", "1", ",", "1", "]">>,
      <<"[", "1", "1", "1", "]">>,
      <<"[", "x", "]">>,
      <<"[", "1", ",">>,
      <<>> }
TextPayloads ==
    { <<"b", "o", "o", "m">>,
      <<"C3", "A9", "a">>,
      <<"a", "FF">>,
      <<>> }
GarbageBytes == {"1", "E", "FF"}

Response(outcome, status, ce, cl, initOk, level, payload, wire) ==
    [outcome |-> outcome, status |-> status, contentEncoding |-> ce,
     contentLength |-> cl, initOk |-> initOk, level |-> level, capacity |-> 100,
     payload |-> payload, wire |-> wire]

\* the bytes on the wire for a payload under a Content-Encoding header: a
\* server that announces gzip sends the gzip stream, or (wrongly) the
\* payload as it is
Wires(ce, payload) ==
    IF ce = <<"text", "gzip">> THEN {Gzip(payload), payload} ELSE {payload}

Responses ==
    {Response("Err", 0, NoHeader, NoHeader, TRUE, 1, <<>>, <<>>)}
    \cup UNION { UNION { { Response("Ok", 200, ce, NoHeader, ok, 1, p, wire) :
                           wire \in Wires(ce, p), ok \in IF ce = <<"text", "gzip">>
                                                         THEN BOOLEAN ELSE {TRUE} } :
                         ce \in ContentEncodings } : p \in JsonPayloads }
    \cup { Response("Ok", 204, ce, cl, TRUE, 1, p, p) :
             ce \in ContentEncodings, cl \in {NoHeader, <<3>>}, p \in {<<>>, <<"a">>} }
    \cup { Response("Ok", 500, ce, NoHeader, TRUE, 1, p, p) :
             ce \in ContentEncodings, p \in TextPayloads }
    \cup { Response("Ok", 500, NoHeader, cl, TRUE, 1, p, p) :
             cl \in ContentLengths, p \in TextPayloads }

InitWith(r) ==
    /\ resp = r
    /\ net = [fut |-> "pending", rest |-> r.wire, q |-> <<>>, closed |-> FALSE,
              ended |-> FALSE, trailers |-> FALSE, failed |-> FALSE]
    /\ js = JsonStreamNew
    /\ zs = [boxed |-> FALSE, inited |-> FALSE, eng |-> EngineNew,
             created |-> 0, released |-> 0]
    /\ out = <<>>
    /\ last = Continue
    /\ obs = [bodyPolled |-> FALSE, polledAfterEnd |-> FALSE, touched |-> FALSE,
              panicked |-> FALSE, dropped |-> FALSE, dataFrames |-> 0]

\* the streams run on a 64-bit target
Init ==
    /\ \E r \in Responses : InitWith(r)
    /\ heap = HeapNew(2 * UIntBits, FALSE)

(***************************************************************************)
(* The transport's steps.                                                  *)
(***************************************************************************)
BodyOpen == /\ net.fut = "ready" /\ resp.outcome = "Ok"
            /\ ~net.closed /\ ~obs.dropped

\* the response future resolves
ResponseArrives ==
    /\ net.fut = "pending" /\ ~obs.dropped
    /\ net' = [net EXCEPT !.fut = "ready"]
    /\ UNCHANGED <<resp, js, zs, out, last, obs, heap>>

\* the next k bytes of the body arrive as one data frame
BodyData ==
    /\ BodyOpen
    /\ \E k \in 1..Len(net.rest) :
         net' = [net EXCEPT !.q = Append(@, Frame("Data", SubSeq(net.rest, 1, k))),
                            !.rest = SubSeq(@, k + 1, Len(@))]
    /\ UNCHANGED <<resp, js, zs, out, last, obs, heap>>

\* a trailers frame follows the data
BodyTrailers ==
    /\ BodyOpen /\ net.rest = <<>> /\ ~net.trailers
    /\ net' = [net EXCEPT !.q = Append(@, Frame("Trailers", <<>>)), !.trailers = TRUE]
    /\ UNCHANGED <<resp, js, zs, out, last, obs, heap>>

\* the body ends cleanly
BodyEnd ==
    /\ BodyOpen /\ net.rest = <<>>
    /\ net' = [net EXCEPT !.q = Append(@, Frame("End", <<>>)), !.closed = TRUE]
    /\ UNCHANGED <<resp, js, zs, out, last, obs, heap>>

\* reading the body fails
BodyError ==
    /\ BodyOpen
    /\ net' = [net EXCEPT !.q = Append(@, Frame("Err", <<>>)), !.closed = TRUE,
                       !.failed = TRUE]
    /\ UNCHANGED <<resp, js, zs, out, last, obs, heap>>

(***************************************************************************)
(* The caller's steps.                                                     *)
(***************************************************************************)
World == [js |-> js, net |-> net, zs |-> zs, obs |-> obs]

\* what the memory behind a chunk may hold, for a poll that may decompress
\* (a frame is ready and the stream is, or may get, on the compressed path)
Garbage == IF /\ net.fut = "ready" /\ net.q # <<>>
              /\ \/ js.tag = "Collecting" /\ js.encoding # "None"
                 \/ js.tag = "Connecting" /\ resp.contentEncoding = <<"text", "gzip">>
           THEN [1..MaxOverRead -> GarbageBytes]
           ELSE {[i \in 1..MaxOverRead |-> "FF"]}

Returned(o, ret) == IF ret.tag \in {"Pending", "Panic"} THEN o ELSE Append(o, ret)

\* one call of poll_next
PollNext ==
    /\ ~obs.dropped /\ ~obs.panicked /\ Len(out) < MaxOut
    /\ \E g \in Garbage :
         LET r == poll_next(World, g) IN
         /\ js' = r.w.js /\ net' = r.w.net /\ zs' = r.w.zs /\ obs' = r.w.obs
         /\ last' = r.ret
         /\ out' = Returned(out, r.ret)
    /\ UNCHANGED <<resp, heap>>

\* the caller drops the stream: JsonStream and State have no Drop impl, so
\* the fields are dropped in place (the future or body is cancelled, the
\* buffers are freed) and the raw pointer is forgotten; the tag "Dropped"
\* stands for the state that no longer exists
DropStream ==
    /\ ~obs.dropped
    /\ obs' = [obs EXCEPT !.dropped = TRUE]
    /\ js' = StateOf("Dropped")
    /\ net' = [net EXCEPT !.fut = "cancelled", !.rest = <<>>, !.q = <<>>]
    /\ UNCHANGED <<resp, zs, out, last, heap>>

Next == \/ ResponseArrives
        \/ BodyData
        \/ BodyTrailers
        \/ BodyEnd
        \/ BodyError
        \/ PollNext
        \/ DropStream

Spec == Init /\ [][Next]_vars

(***************************************************************************)
(* Properties of the protocol state machine.                               *)
(***************************************************************************)
Live == ~obs.dropped

\* C1: the non-pending results are a run of Ok elements, then exhaustion or
\* one Err followed by exhaustion: after the first Err or the first
\* Ready(None), every later result is Ready(None).
C1_ErrorThenExhaustion ==
    \A i \in 1..Len(out) : \A k \in 1..Len(out) :
        (i < k /\ out[i].tag \in {"Err", "None"}) => out[k].tag = "None"

\* C2: a poll made in state Done returns Ready(None), polls neither the
\* response future nor the body, leaves the transport and the state as
\* they are, and is_terminated() is true after it.
C2_DoneIsFused ==
    [][(js.tag = "Done" /\ PollNext)
         => (/\ last' = ReadyNone
             /\ js' = js
             /\ is_terminated(js')
             /\ net' = net
             /\ ~obs'.touched
             /\ obs'.bodyPolled = obs.bodyPolled
             /\ obs'.polledAfterEnd = obs.polledAfterEnd)]_vars

\* a poll was made in state Done: a 204 or a failed response future leaves
\* Done at the first result, and a second result followed
C2_Witness ==
    /\ resp.outcome = "Err" \/ resp.status = StatusNoContent
    /\ js.tag = "Done" /\ Len(out) >= 3 /\ last = ReadyNone

\* C3: once poll_next has returned Ready(None), is_terminated() is true and
\* the body is not polled again.
C3_ExhaustionTerminates ==
    (Live /\ \E i \in 1..Len(out) : out[i].tag = "None")
        => (is_terminated(js) /\ ~obs.polledAfterEnd)

\* C4: for a 204 response, whatever its headers, the poll that sees the
\* response returns Ready(None), every result is Ready(None), the state is
\* Done and the body is never polled.
C4_NoContent ==
    (resp.outcome = "Ok" /\ resp.status = StatusNoContent)
        => /\ ~obs.bodyPolled
           /\ ~obs.panicked
           /\ \A i \in 1..Len(out) : out[i] = ReadyNone
           /\ (Live /\ last.tag \notin {"Continue", "Pending"})
                 => (last = ReadyNone /\ is_terminated(js))

\* the body arrived as data frames and ended cleanly (or has not ended)
DataOnlyBody == ~net.trailers /\ ~net.failed

\* C5: for a status other than 200 and 204 whose body arrives as data
\* frames, nothing is returned until the body is exhausted; the first
\* result is then ApiError(status, text), text being all the body's bytes
\* in arrival order (MalformedJson when they are not valid text), the
\* state is Done and only exhaustion follows.
C5_ApiErrorAfterDrain ==
    (resp.outcome = "Ok" /\ resp.status \notin {StatusOK, StatusNoContent}
       /\ DataOnlyBody)
        => /\ \A i \in 1..Len(out) : out[i].tag # "Ok"
           /\ net.ended <=> out # <<>>
           /\ out # <<>> =>
                /\ out[1] = IF Utf8Valid(resp.wire)
                            THEN ApiError(resp.status, resp.wire)
                            ELSE ReadyErr("MalformedJson")
                /\ \A i \in 2..Len(out) : out[i] = ReadyNone
                /\ Live => is_terminated(js)

\* a 500 whose body "boom" arrived in three frames or more was reported
C5_Witness ==
    /\ resp.status = 500 /\ resp.wire = <<"b", "o", "o", "m">>
    /\ obs.dataFrames >= 3
    /\ out = <<ApiError(500, <<"b", "o", "o", "m">>), ReadyNone>>

\* C9: a compression context that was created has been released exactly
\* once when the stream has left the compressed Collecting state or has
\* been dropped, and is never released more often than created.
C9_ContextReleasedOnce ==
    /\ zs.released <= zs.created
    /\ (obs.dropped \/ js.tag \in {"Done", "EncodingError"})
          => zs.released = zs.created

\* C10: a poll that finds the response future failed returns the transport
\* error and leaves Done; polls before it are pending, polls after it
\* return Ready(None); the body is never polled.
C10_TransportFailure ==
    [][(resp.outcome = "Err" /\ PollNext)
         => /\ ~obs'.bodyPolled
            /\ IF js.tag = "Connecting" /\ net.fut = "ready"
               THEN last' = ReadyErr("HyperError") /\ js' = Done
               ELSE IF js.tag = "Connecting"
               THEN last' = Pending /\ js' = js
               ELSE js.tag = "Done" /\ last' = ReadyNone /\ js' = js]_vars

\* the transport error was returned, and exhaustion after it
C10_Witness ==
    /\ resp.outcome = "Err"
    /\ Len(out) >= 3 /\ out[1] = ReadyErr("HyperError")
    /\ \A i \in 2..Len(out) : out[i] = ReadyNone
    /\ js = Done

(***************************************************************************)
(* Chunking and compression: a run is compared with the run of a stream    *)
(* that is handed the same bytes as one chunk.                             *)
(***************************************************************************)
OneChunk(bytes) ==
    [fut |-> "ready", rest |-> <<>>,
     q |-> (IF bytes = <<>> THEN <<>> ELSE <<Frame("Data", bytes)>>)
           \o <<Frame("End", <<>>)>>,
     closed |-> TRUE, ended |-> FALSE, trailers |-> FALSE, failed |-> FALSE]

\* a stream in Collecting with the whole body ready as one chunk
WholeBodyWorld(bytes, encoding, stream) ==
    [js |-> Collecting(PartialJsonNew(resp.capacity, resp.level), encoding, stream),
     net |-> OneChunk(bytes),
     zs |-> [boxed |-> stream # "null", inited |-> stream # "null",
             eng |-> EngineNew, created |-> 0, released |-> 0],
     obs |-> [bodyPolled |-> FALSE, polledAfterEnd |-> FALSE, touched |-> FALSE,
              panicked |-> FALSE, dropped |-> FALSE, dataFrames |-> 0]]

NoOverRead == [i \in 1..MaxOverRead |-> "FF"]

\* the results of polling w until the first result that is not an element
RECURSIVE Drain(_, _)
Drain(w, acc) ==
    LET r == poll_next(w, NoOverRead) IN
    IF r.ret.tag = "Ok" THEN Drain(r.w, Append(acc, r.ret)) ELSE Append(acc, r.ret)

\* out, up to its first result that is not an element, is a prefix of ref
AgreesWith(ref) ==
    \A i \in 1..Len(out) :
        (\A k \in 1..(i - 1) : out[k].tag = "Ok") => (i <= Len(ref) /\ out[i] = ref[i])

Uncompressed200 ==
    /\ resp.outcome = "Ok" /\ resp.status = StatusOK
    /\ resp.contentEncoding \in {NoHeader, <<"text", "br">>}

Compressed200 ==
    /\ resp.outcome = "Ok" /\ resp.status = StatusOK
    /\ resp.contentEncoding = <<"text", "gzip">> /\ resp.initOk
    /\ resp.wire = Gzip(resp.payload)

\* C6: for an uncompressed 200 response whose body arrives as data frames,
\* the results up to and including the first that is not an element (the
\* elements, in order, and what ends them) are those of the same bytes
\* delivered as one chunk, however the bytes are split.
C6_SplitInvariant ==
    (Uncompressed200 /\ DataOnlyBody)
        => AgreesWith(Drain(WholeBodyWorld(resp.wire, "None", "null"), <<>>))

\* a body of five bytes or more arrived one byte per chunk, and the stream
\* yielded two elements and then exhaustion
C6_Witness ==
    /\ Uncompressed200 /\ DataOnlyBody
    /\ Len(resp.wire) >= 5 /\ obs.dataFrames = Len(resp.wire)
    /\ Len(out) = 3 /\ out[1].tag = "Ok" /\ out[2].tag = "Ok" /\ out[3] = ReadyNone

\* a complete JSON array: "[" ... "]" whose elements all decode
IsJsonArray(p) ==
    /\ Len(p) >= 2 /\ p[1] = "[" /\ p[Len(p)] = "]"
    /\ LET ref == Drain(WholeBodyWorld(p, "None", "null"), <<>>)
       IN ref[Len(ref)] = ReadyNone

\* C7: a gzip-compressed JSON array delivered with Content-Encoding gzip
\* yields the results the uncompressed bytes of the array yield: the same
\* elements in the same order, no error, then exhaustion.
C7_GzipRoundTrip ==
    (Compressed200 /\ DataOnlyBody /\ IsJsonArray(resp.payload))
        => AgreesWith(Drain(WholeBodyWorld(resp.payload, "None", "null"), <<>>))

\* poll w until exhaustion (at most fuel results), collecting the results
RECURSIVE DrainAll(_, _, _)
DrainAll(w, acc, fuel) ==
    LET r == poll_next(w, NoOverRead) IN
    IF fuel = 0 \/ r.ret.tag \in {"Pending", "Panic"} THEN acc
    ELSE IF r.ret.tag = "None" THEN Append(acc, r.ret)
    ELSE DrainAll(r.w, Append(acc, r.ret), fuel - 1)

Exhausted(o) == \E i \in 1..Len(o) : o[i].tag = "None"

\* the elements yielded before the first Ready(None), in order
RECURSIVE Elements(_)
Elements(o) ==
    IF o = <<>> \/ Head(o).tag = "None" THEN <<>>
    ELSE IF Head(o).tag = "Ok" THEN <<Head(o).val>> \o Elements(Tail(o))
    ELSE Elements(Tail(o))

\* C8: a compressed body split into chunks yields, up to exhaustion, the
\* element sequence of the same compressed bytes delivered as one chunk.
C8_CompressedSplitInvariant ==
    (Compressed200 /\ DataOnlyBody /\ Exhausted(out))
        => Elements(out)
             = Elements(DrainAll(WholeBodyWorld(resp.wire, "Gzip", "zs"), <<>>, MaxOut))

(***************************************************************************)
(* Uncompressed 200 responses over every short body, split every way.      *)
(***************************************************************************)
MaxBody == 3
Alphabet == {"[", "]", ",", "1", "\""}
LongBodies ==
    { <<"[", "1", ",", "1", "]">>,
      <<"[", "[", "1", "]", ",", "[", "]", "]">>,
      <<"[", "{", "\"", "]", "\"", "}", ",", "1", "]">>,
      <<"[", "\"", "\\", "\"", ",", "\"", ",", "1">> }
SplitBodies ==
    LongBodies \cup UNION { [1..n -> Alphabet] : n \in 0..MaxBody }

InitSplit ==
    \E wire \in SplitBodies, lvl \in {1, 2} :
        /\ InitWith(Response("Ok", 200, NoHeader, NoHeader, TRUE, lvl, wire, wire))
        /\ heap = HeapNew(2 * UIntBits, FALSE)

NextSplit == \/ ResponseArrives
             \/ BodyData
             \/ BodyEnd
             \/ PollNext

SpecSplit == InitSplit /\ [][NextSplit]_vars

(***************************************************************************)
(* zlib's use of the allocator bridge: any zalloc, and zfree of an address *)
(* that zalloc returned and that has not been freed.                       *)
(***************************************************************************)
\* zlib asks for items of one byte (the window) and for one item of the
\* size of its state; items of one byte reach every product that fits
\* uInt, and items of UIntMax bytes the products that do not
ItemSizes == {1, UIntMax}

InitAlloc ==
    /\ InitWith(Response("Err", StatusOK, NoHeader, NoHeader, TRUE, 1, <<>>, <<>>))
    /\ \E bits \in UsizeBits, checks \in BOOLEAN : heap = HeapNew(bits, checks)

ZallocCall ==
    /\ ~heap.aborted
    /\ \E items \in 0..UIntMax, item_size \in ItemSizes, hostOk \in BOOLEAN :
           heap' = zalloc(heap, items, item_size, hostOk)
    /\ UNCHANGED <<resp, net, js, zs, out, last, obs>>

ZfreeCall ==
    /\ ~heap.aborted
    /\ \E address \in heap.held : heap' = zfree(heap, address)
    /\ UNCHANGED <<resp, net, js, zs, out, last, obs>>

NextAlloc == \/ ZallocCall
             \/ ZfreeCall

SpecAlloc == InitAlloc /\ [][NextAlloc]_vars

\* the size zalloc must request: the product rounded up to the alignment,
\* plus the header word, in unbounded arithmetic
ExactRequest(n, bits) ==
    ((n + ALIGN(bits) - 1) \div ALIGN(bits)) * ALIGN(bits) + HeaderWidth(bits)

\* C11: every zalloc call either returns null or requests from the host
\* allocator exactly the product of its arguments rounded up to ALIGN plus
\* the header width; an overflow at any step returns null.
C11_ZallocExactSize ==
    heap.call.op = "zalloc"
        => /\ ~heap.aborted
           /\ \/ heap.call.ret = NullPtr /\ heap.call.requested = <<>>
              \/ /\ heap.call.product # <<>>
                 /\ heap.call.requested
                      = <<ExactRequest(heap.call.product[1], heap.usizeBits)>>

\* C12: zfree hands the host allocator the block zalloc obtained, with the
\* size and alignment it was allocated with; the live blocks are exactly
\* the ones zlib holds, so none is leaked and none is released twice.
C12_FreeReturnsBlock ==
    /\ ~heap.ub
    /\ { b.id : b \in heap.blocks } = { p.block : p \in heap.held }
    /\ Cardinality(heap.held) = Cardinality(heap.blocks)
    /\ heap.call.op = "zfree" => heap.call.layout = heap.call.block

C12_Witness ==
    /\ heap.call.op = "zfree"
    /\ heap.blocks = {}
    /\ heap.held = {}
    /\ heap.call.layout[1] > HeaderWidth(heap.usizeBits)

(***************************************************************************)
(* The compressed path: failures of the engine.                            *)
(***************************************************************************)
GzipInitFails ==
    /\ resp.outcome = "Ok" /\ resp.status = StatusOK
    /\ resp.contentEncoding = <<"text", "gzip">> /\ ~resp.initOk

\* C13: a 200 response with Content-Encoding gzip whose engine fails to
\* initialise puts the stream in EncodingError; the poll made there yields
\* the EncodingError and goes to Done, so the error is yielded once and
\* exhaustion follows.
C13_InitFailureYieldsOnce ==
    [][(GzipInitFails /\ PollNext)
         => /\ js.tag = "Connecting" /\ net.fut = "ready"
                => last' = ReadyErr("EncodingError")
            /\ js.tag = "EncodingError"
                => last' = ReadyErr("EncodingError") /\ js'.tag = "Done"
            /\ js.tag = "Done" => last' = ReadyNone
            /\ last' = ReadyErr("EncodingError") => js'.tag = "Done"]_vars

\* C14: on the compressed path, a poll whose decompression step reports a
\* status other than Z_OK and Z_BUF_ERROR yields EncodingError and leaves
\* the stream terminated: every later poll returns exhaustion and none
\* reaches the engine again.
C14_FatalStatusTerminates ==
    [][(resp.initOk /\ PollNext)
         => /\ last' = ReadyErr("EncodingError") => is_terminated(js')
            /\ last = ReadyErr("EncodingError")
                => last' = ReadyNone /\ zs' = zs /\ js'.total_in = js.total_in]_vars

(***************************************************************************)
(* The compressed path: what the engine is handed and what is pushed.      *)
(***************************************************************************)
\* the next poll feeds the chunk at the head of the body to the engine
FeedReady ==
    /\ ~obs.dropped /\ ~obs.panicked
    /\ js.tag = "Collecting" /\ js.encoding = "Gzip"
    /\ JsonNext(js.json).res = "None"
    /\ net.q # <<>> /\ Head(net.q).kind = "Data"

\* the passes of the loop over that chunk, for a memory content g
NextFeed(g) ==
    FeedLoop(JsonNext(js.json).json, zs.eng, js.total_in, Head(net.q).bytes, g)

\* C15: at every decompression step of a chunk, the engine is handed the
\* unconsumed remainder of the chunk: the input starts at the counter, the
\* counter is within the chunk, and the declared length is the chunk's
\* length minus the counter.
C15_InputIsRemainder ==
    FeedReady =>
        \A g \in Garbage :
            /\ NextFeed(g).res # "panic"
            /\ \A i \in 1..Len(NextFeed(g).steps) :
                 LET s == NextFeed(g).steps[i] IN
                 /\ s.next_in <= Len(Head(net.q).bytes)
                 /\ s.avail_in = Len(Head(net.q).bytes) - s.next_in

\* C16: after every decompression step that returns Z_OK or Z_BUF_ERROR,
\* the step that consumes the chunk's last byte included, the bytes the
\* step produced, and only those, are pushed to the extractor.
C16_PushesProducedBytes ==
    FeedReady =>
        \A g \in Garbage :
            \A i \in 1..Len(NextFeed(g).steps) :
                LET s == NextFeed(g).steps[i] IN
                s.ret \in {"Z_OK", "Z_BUF_ERROR"}
                    => \/ s.pushed = <<s.produced>>
                       \/ s.pushed = <<>> /\ s.produced = <<>>

(***************************************************************************)
(* The choice of the path, and the suspension points.                      *)
(***************************************************************************)
\* the bytes of the body the stream has taken from the transport
RECURSIVE QueuedBytes(_)
QueuedBytes(q) ==
    IF q = <<>> THEN 0 ELSE Len(Head(q).bytes) + QueuedBytes(Tail(q))

Delivered == SubSeq(resp.wire, 1, Len(resp.wire) - Len(net.rest) - QueuedBytes(net.q))

IsSuffix(s, t) == Len(s) <= Len(t) /\ s = SubSeq(t, Len(t) - Len(s) + 1, Len(t))

Suspended(st, n) ==
    \/ st.tag = "Connecting" /\ n.fut = "pending"
    \/ /\ st.tag = "Collecting" /\ JsonNext(st.json).res = "None"
       /\ n.q = <<>> /\ ~n.ended
    \/ st.tag = "CollectingError" /\ n.q = <<>> /\ ~n.ended

\* C18: poll_next returns Pending only with the stream at a suspension
\* point, and a poll made at a suspension point returns Pending and leaves
\* the state, the extractor's buffer, the error body and the per-chunk
\* counter as they were; every other poll loops until it has a value, an
\* error or exhaustion to return.
C18_PendingOnlyWhenSuspended ==
    [][PollNext
         => /\ last' # Continue
            /\ last' = Pending => Suspended(js', net')
            /\ Suspended(js, net)
                 => /\ last' = Pending
                    /\ js'.tag = js.tag
                    /\ js'.json.buf = js.json.buf
                    /\ js'.bytes = js.bytes
                    /\ js'.total_in = js.total_in
                    /\ net' = net /\ zs' = zs /\ out' = out
            /\ ~Suspended(js, net) /\ ~Suspended(js', net')
                 => last'.tag \in {"Ok", "Err", "None", "Panic"}]_vars

\* a poll found the next chunk pending with bytes of an unfinished element
\* in the extractor, after an element had been yielded
C18_Witness ==
    /\ last = Pending /\ js.tag = "Collecting"
    /\ js.json.buf # <<>> /\ out # <<>>
    /\ net.q = <<>> /\ ~net.ended

(***************************************************************************)
(* The Element Extractor on its own: any bytes pushed one at a time, and   *)
(* next() called at any point, until a parse failure.                      *)
(***************************************************************************)
JsonAlphabet == Alphabet \cup {"\\"}
Levels == {1, 2}

InitJson ==
    /\ \E lvl \in Levels :
         resp = Response("Ok", StatusOK, NoHeader, NoHeader, TRUE, lvl, <<>>, <<>>)
    /\ js = WholeBodyWorld(<<>>, "None", "null").js
    /\ net = WholeBodyWorld(<<>>, "None", "null").net
    /\ zs = WholeBodyWorld(<<>>, "None", "null").zs
    /\ obs = WholeBodyWorld(<<>>, "None", "null").obs
    /\ out = <<>>
    /\ last = Continue
    /\ heap = HeapNew(2 * UIntBits, FALSE)

\* json.push(&b[..])
ExtractorPush ==
    /\ last.tag # "Err" /\ Len(js.json.buf) < MaxBuf
    /\ \E b \in JsonAlphabet : js' = [js EXCEPT !.json = JsonPush(@, <<b>>)]
    /\ UNCHANGED <<resp, net, zs, out, last, obs, heap>>

\* json.next()
ExtractorNext ==
    /\ last.tag # "Err"
    /\ LET n == JsonNext(js.json) IN
       /\ js' = [js EXCEPT !.json = n.json]
       /\ last' = IF n.res = "Some" THEN ReadyOk(n.val)
                  ELSE IF n.res = "Err" THEN ReadyErr("JsonError")
                  ELSE Pending
    /\ UNCHANGED <<resp, net, zs, out, obs, heap>>

NextJson == \/ ExtractorPush
            \/ ExtractorNext

SpecJson == InitJson /\ [][NextJson]_vars

\* the byte strings pushed after a call of next()
Pushes == UNION { [1..n -> JsonAlphabet] : n \in 1..MaxPush }

\* C19: a call of next() that finds no complete element leaves the Byte
\* Buffer as it was, and after any further push the next call of next()
\* gives what it gives when the first call is not made.
C19_NoneLeavesBuffer ==
    LET n == JsonNext(js.json) IN
    n.res = "None"
        => /\ n.json.buf = js.json.buf
           /\ \A t \in Pushes :
                JsonNext(JsonPush(n.json, t)) = JsonNext(JsonPush(js.json, t))

\* next() found nothing with the start of an element scanned, and the
\* element is completed by a later push
C19_Witness ==
    /\ last = Pending
    /\ js.json.pos = Len(js.json.buf) /\ js.json.start # 0
    /\ JsonNext(JsonPush(js.json, <<",">>)).res = "Some"

\* C20: after a successful next() the buffer is the buffer before the call
\* without a prefix, and the prefix dropped ends with the bytes of the
\* element and the separator that follows it.
C20_ConsumedPrefixDropped ==
    JsonNext(js.json).res = "Some"
        => LET n == JsonNext(js.json)
               buf == js.json.buf
           IN  \E k \in 1..Len(buf) :
                 /\ n.json.buf = SubSeq(buf, k + 1, Len(buf))
                 /\ buf[k] \in {",", "]", "}"}
                 /\ k > Len(n.val)
                 /\ SubSeq(buf, k - Len(n.val), k - 1) = n.val

\* an element was extracted and the start of the next one is kept
C20_Witness ==
    /\ last.tag = "Ok" /\ js.json.buf # <<>> /\ js.json.pos = 0

(***************************************************************************)
(* The decompression loop ends, and the order of extraction and reading.   *)
(***************************************************************************)
\* the stream is on the compressed path and would feed the next chunk
FeedPossible ==
    /\ ~obs.dropped /\ ~obs.panicked
    /\ js.tag = "Collecting" /\ js.encoding = "Gzip"
    /\ JsonNext(js.json).res = "None"

\* the chunks the loop is run over: the one at the head of the body, if
\* any, and the empty chunk
FeedChunks ==
    {<<>>} \cup (IF net.q # <<>> /\ Head(net.q).kind = "Data"
                 THEN {Head(net.q).bytes} ELSE {})

\* C21: the decompression loop over a chunk, the empty chunk included, ends
\* within the poll after finitely many passes, either with the counter at
\* the chunk's length and then reset to zero, or with a fatal error.
C21_FeedEnds ==
    FeedPossible =>
        \A b \in FeedChunks : \A g \in Garbage :
            LET f == FeedLoop(JsonNext(js.json).json, zs.eng, js.total_in, b, g)
                n == Len(f.steps)
            IN  /\ f.res \in {"ok", "error"}
                /\ n >= 1
                /\ f.res = "ok" => f.total_in = 0 /\ f.steps[n].ret \in {"Z_OK", "Z_BUF_ERROR"}
                /\ f.res = "error" => f.steps[n].ret \notin {"Z_OK", "Z_BUF_ERROR"}

\* the data frames among the first n frames of q, in order
RECURSIVE DataFrames(_, _)
DataFrames(q, n) ==
    IF n = 0 \/ q = <<>> THEN <<>>
    ELSE (IF Head(q).kind = "Data" THEN <<Head(q).bytes>> ELSE <<>>)
         \o DataFrames(Tail(q), n - 1)

\* the chunks a poll took from the body
Taken == DataFrames(net.q, Len(net.q) - Len(net'.q))

\* C22: in Collecting the body is polled only when next() has found no
\* complete element: a poll that starts with a complete element buffered
\* returns it and leaves the body alone.  On the uncompressed path no
\* complete element is left in the buffer when exhaustion is returned, and
\* what a poll leaves buffered holds no complete element or is the rest of
\* the last chunk it took.
C22_ExtractBeforeRead ==
    [][(PollNext /\ js.tag = "Collecting")
         => /\ JsonNext(js.json).res # "None"
                 => net' = net /\ ~obs'.touched /\ last'.tag \in {"Ok", "Err"}
            /\ (js.encoding = "None" /\ last' = ReadyNone)
                 => JsonNext(js'.json).res = "None"
            /\ (js.encoding = "None" /\ js'.tag = "Collecting")
                 => \/ JsonNext(js'.json).res = "None"
                    \/ IF Taken = <<>> THEN IsSuffix(js'.json.buf, js.json.buf)
                       ELSE IsSuffix(js'.json.buf, Taken[Len(Taken)])]_vars

\* an uncompressed body of two elements was read to exhaustion: both were
\* yielded before the exhaustion signal and the buffer holds no element
C22_Witness ==
    /\ js.tag = "Collecting" /\ js.encoding = "None"
    /\ Len(out) = 3 /\ out[1].tag = "Ok" /\ out[2].tag = "Ok" /\ out[3] = ReadyNone
    /\ last = ReadyNone /\ JsonNext(js.json).res = "None"

====
